---- MODULE Spec2Model ----
(***************************************************************************)
(* Model of retrain.py: the partitioner (create_image_lists), the path     *)
(* resolver (get_image_path, get_bottleneck_path) and the bottleneck cache *)
(* (get_or_create_bottleneck, cache_bottlenecks, the cached sampler).      *)
(*                                                                         *)
(* Strings are sequences of tokens.  A directory name is a sequence of     *)
(* single characters; a base file name is a sequence of tokens whose last  *)
(* token is the extension (".jpg") and in which the grouping marker        *)
(* "_nohash_" and the newline character are tokens of their own.           *)
(***************************************************************************)
EXTENDS Integers, Sequences, FiniteSets, TLC

\* ------------------------------------------------------------------------
\* Strings and paths
\* ------------------------------------------------------------------------

Slash == "/"

NoHashMarker == "_nohash_"

NewlineChar == "\n"

\* The string a token sequence spells.
RECURSIVE Flat(_)
Flat(s) == IF s = <<>> THEN "" ELSE Head(s) \o Flat(Tail(s))

\* os.path.join of a directory path and a relative component.
PathJoin(a, b) == a \o <<Slash>> \o b

\* Index of the last "/" of a path, 0 if there is none.
RECURSIVE LastSlash(_, _)
LastSlash(p, i) ==
  IF i = 0 THEN 0
  ELSE IF p[i] = Slash THEN i ELSE LastSlash(p, i - 1)

\* os.path.basename
Basename(p) == SubSeq(p, LastSlash(p, Len(p)) + 1, Len(p))

\* os.path.dirname (of a path that has a directory part)
Dirname(p) == SubSeq(p, 1, LastSlash(p, Len(p)) - 1)

\* str.lower() of one character, for the characters directory names use.
LowerChar(c) ==
  CASE c = "C" -> "c"
    [] c = "D" -> "d"
    [] OTHER -> c

LowerAlnum == {"a", "c", "d", "g", "o", "t", "r", "1", "2"}

\* re.sub(r'[^a-z0-9]+', ' ', s) on an already lower-cased name: every
\* maximal run of other characters becomes one space.
RECURSIVE CollapseNonAlnum(_, _)
CollapseNonAlnum(s, inRun) ==
  IF s = <<>> THEN <<>>
  ELSE IF Head(s) \in LowerAlnum
       THEN <<Head(s)>> \o CollapseNonAlnum(Tail(s), FALSE)
       ELSE IF inRun THEN CollapseNonAlnum(Tail(s), TRUE)
            ELSE <<" ">> \o CollapseNonAlnum(Tail(s), TRUE)

\* label_name = re.sub(r'[^a-z0-9]+', ' ', dir_name.lower())
LabelName(dir_name) ==
  CollapseNonAlnum([i \in 1..Len(dir_name) |-> LowerChar(dir_name[i])], FALSE)

\* The tail  rest  matches  .*$  : '.' does not match a newline, and '$'
\* matches at the end of the string or just before a final newline.
DotStarDollar(rest) ==
  \A i \in 1..Len(rest) : rest[i] = NewlineChar => i = Len(rest)

\* Position of the leftmost marker from position i on at which
\* _nohash_.*$ matches, 0 if the pattern matches nowhere.
RECURSIVE NoHashMatch(_, _)
NoHashMatch(s, i) ==
  IF i > Len(s) THEN 0
  ELSE IF s[i] = NoHashMarker /\ DotStarDollar(SubSeq(s, i + 1, Len(s)))
       THEN i
       ELSE NoHashMatch(s, i + 1)

\* hash_name = re.sub(r'_nohash_.*$', '', file_name)
StripNoHash(s) ==
  LET m == NoHashMatch(s, 1) IN
  IF m = 0 THEN s
  ELSE SubSeq(s, 1, m - 1) \o
       (IF s[Len(s)] = NewlineChar /\ Len(s) > m THEN <<NewlineChar>> ELSE <<>>)

\* int(hashlib.sha1(s).hexdigest(), 16) % 65536 : the low 16 bits of the
\* SHA-1 digest of the string, tabulated for the strings of the model.
Sha1Mod65536(s) ==
  CASE s = "/r1/cat/a.jpg" -> 58752
    [] s = "a.jpg" -> 57965
    [] s = "/r1/cat/leaf_nohash_0.jpg" -> 8899
    [] s = "/r1/cat/leaf" -> 46745
    [] s = "leaf_nohash_0.jpg" -> 61780
    [] s = "leaf" -> 23508
    [] s = "/r1/cat/leaf_nohash_1.jpg" -> 46712
    [] s = "leaf_nohash_1.jpg" -> 49476
    [] s = "/r1/cat/leaf_nohash_2\nx.jpg" -> 18767
    [] s = "leaf_nohash_2\nx.jpg" -> 6167
    [] s = "/r1/cat/img68084.jpeg" -> 65535
    [] s = "img68084.jpeg" -> 63113
    [] s = "/r1/Cat/b.JPG" -> 56280
    [] s = "b.JPG" -> 22003
    [] s = "/r1/dog/a.jpg" -> 9559
    [] s = "/r1/dog/n.png" -> 59399
    [] s = "n.png" -> 46739
    [] s = "/r2/cat/a.jpg" -> 58872
    [] s = "/r1/dog/b.jpg" -> 55007
    [] s = "b.jpg" -> 26176
    [] s = "/r1/dog/d.jpg" -> 42199
    [] s = "d.jpg" -> 32301

\* ------------------------------------------------------------------------
\* The files that can exist
\* ------------------------------------------------------------------------

RootR1 == <<Slash, "r1">>

\* A path at which no directory exists.
RootR2 == <<Slash, "r2">>

ImageDirs == {RootR1, RootR2}

DirCat == <<"c", "a", "t">>

DirCat2 == <<"C", "a", "t">>

DirDog == <<"d", "o", "g">>

\* Directory names in the order the file system lists them.
DirOrder == <<DirCat, DirCat2, DirDog>>

BaseA == <<"a", ".jpg">>

BaseLeaf0 == <<"leaf", NoHashMarker, "0", ".jpg">>

BaseLeaf1 == <<"leaf", NoHashMarker, "1", ".jpg">>

BaseLeafNl == <<"leaf", NoHashMarker, "2", NewlineChar, "x", ".jpg">>

BaseTop == <<"img68084", ".jpeg">>

BaseB == <<"b", ".JPG">>

BaseN == <<"n", ".png">>

BaseDogB == <<"b", ".jpg">>

BaseDogD == <<"d", ".jpg">>

\* Base names in the order the file system lists them.
BaseOrder ==
  <<BaseA, BaseLeaf0, BaseLeaf1, BaseLeafNl, BaseTop, BaseB, BaseN, BaseDogB,
    BaseDogD>>

File(root, dir, base) == [root |-> root, dir |-> dir, base |-> base]

FilePool ==
  { File(RootR1, DirCat, BaseA), File(RootR1, DirCat, BaseLeaf0),
    File(RootR1, DirCat, BaseLeaf1), File(RootR1, DirCat, BaseLeafNl),
    File(RootR1, DirCat, BaseTop), File(RootR1, DirCat2, BaseB),
    File(RootR1, DirDog, BaseA), File(RootR1, DirDog, BaseN) }

FullPath(f) == PathJoin(PathJoin(f.root, f.dir), f.base)

\* ------------------------------------------------------------------------
\* File system listing
\* ------------------------------------------------------------------------

RECURSIVE Reverse(_)
Reverse(s) == IF s = <<>> THEN <<>> ELSE Reverse(Tail(s)) \o <<Head(s)>>

Range(s) == {s[i] : i \in 1..Len(s)}

\* The members of S in the order of a directory listing; os.listdir returns
\* them in an arbitrary order, here  order  or its reverse.
Listing(order, S, rev) ==
  SelectSeq(IF rev THEN Reverse(order) ELSE order, LAMBDA x : x \in S)

\* gfile.Exists(image_dir)
DirExists(files, root) == \E f \in files : f.root = root

\* Names of the sub-directories of root.
SubDirNames(files, root) == {f.dir : f \in {g \in files : g.root = root}}

\* Names of the entries of directory root/dir_name.
DirEntries(files, root, dir_name) ==
  {f.base : f \in {g \in files : g.root = root /\ g.dir = dir_name}}

\* sub_dirs = [x[0] for x in os.walk(image_dir)] : the root itself, then its
\* sub-directories in listing order.
WalkSubDirs(files, root, rev) ==
  LET names == Listing(DirOrder, SubDirNames(files, root), rev)
  IN <<root>> \o [i \in 1..Len(names) |-> PathJoin(root, names[i])]

Extensions == <<"jpg", "jpeg", "JPG", "JPEG">>

\* fnmatch of a base name against '*.' + extension ('*' does not match a
\* leading dot, so the name has a stem).
MatchesExtension(base, extension) ==
  Len(base) > 1 /\ base[Len(base)] = "." \o extension

\* glob.glob(os.path.join(image_dir, dir_name, '*.' + extension))
GlobExtension(files, root, dir_name, extension, rev) ==
  LET names == Listing(BaseOrder, DirEntries(files, root, dir_name), rev)
      hits  == SelectSeq(names, LAMBDA b : MatchesExtension(b, extension))
  IN [i \in 1..Len(hits) |-> PathJoin(PathJoin(root, dir_name), hits[i])]

\* file_list after the loop over the extensions.
RECURSIVE GlobFileList(_, _, _, _, _)
GlobFileList(files, root, dir_name, exts, rev) ==
  IF exts = <<>> THEN <<>>
  ELSE GlobExtension(files, root, dir_name, Head(exts), rev)
       \o GlobFileList(files, root, dir_name, Tail(exts), rev)

\* ------------------------------------------------------------------------
\* create_image_lists
\* ------------------------------------------------------------------------

HashModulus == 65536

HashDivisor == 65535

\* percentage_hash, as the numerator of a fraction over HashDivisor:
\* (digest % 65536) * (100 / 65535.0).
PercentageHash(hash_name) == (Sha1Mod65536(Flat(hash_name)) % HashModulus) * 100

\* percentage_hash < percentage.  The comparison of the rounded double with
\* an integer percentage agrees with the exact comparison for every digest
\* in 0..65535 and every integer percentage in 0..200.
PctLess(ph, percentage) == ph < percentage * HashDivisor

EmptySplit == [training |-> <<>>, testing |-> <<>>, validation |-> <<>>]

\* A variant that tests the second threshold with 'if' instead of 'elif'.
PlaceFileNoElif(lists, base_name, ph, testing_pct, validation_pct) ==
  LET a == IF PctLess(ph, validation_pct)
           THEN [lists EXCEPT !.validation = Append(@, base_name)]
           ELSE lists
  IN IF PctLess(ph, testing_pct + validation_pct)
     THEN [a EXCEPT !.testing = Append(@, base_name)]
     ELSE [a EXCEPT !.training = Append(@, base_name)]

\* A variant that fills the splits up to their share of the files seen so
\* far instead of using the hash.
PlaceFileByCount(lists, base_name, ph, testing_pct, validation_pct) ==
  LET n == Len(lists.training) + Len(lists.testing) + Len(lists.validation) + 1
  IN IF Len(lists.validation) * 100 < validation_pct * n
     THEN [lists EXCEPT !.validation = Append(@, base_name)]
     ELSE IF Len(lists.testing) * 100 < testing_pct * n
          THEN [lists EXCEPT !.testing = Append(@, base_name)]
          ELSE [lists EXCEPT !.training = Append(@, base_name)]

\* A variant whose second threshold is the testing percentage alone.
PlaceFileNoSum(lists, base_name, ph, testing_pct, validation_pct) ==
  IF PctLess(ph, validation_pct)
  THEN [lists EXCEPT !.validation = Append(@, base_name)]
  ELSE IF PctLess(ph, testing_pct)
       THEN [lists EXCEPT !.testing = Append(@, base_name)]
       ELSE [lists EXCEPT !.training = Append(@, base_name)]

\* The if / elif / else that appends base_name to one of the three lists.
PlaceFile(lists, base_name, ph, testing_pct, validation_pct) ==
  IF PctLess(ph, validation_pct)
  THEN [lists EXCEPT !.validation = Append(@, base_name)]
  ELSE IF PctLess(ph, testing_pct + validation_pct)
       THEN [lists EXCEPT !.testing = Append(@, base_name)]
       ELSE [lists EXCEPT !.training = Append(@, base_name)]

\* The loop over file_list.
RECURSIVE SplitFileList(_, _, _, _)
SplitFileList(file_list, lists, testing_pct, validation_pct) ==
  IF file_list = <<>> THEN lists
  ELSE LET file_name == Head(file_list)
           base_name == Basename(file_name)
           hash_name == StripNoHash(file_name)
       IN SplitFileList(Tail(file_list),
                        PlaceFile(lists, base_name, PercentageHash(hash_name),
                                  testing_pct, validation_pct),
                        testing_pct, validation_pct)

\* result[label_name] = {...}
DictPut(d, k, val) == [x \in DOMAIN d \cup {k} |-> IF x = k THEN val ELSE d[x]]

\* The loop over sub_dirs.
RECURSIVE WalkResult(_, _, _, _, _, _, _)
WalkResult(sub_dirs, result, files, root, testing_pct, validation_pct, rev) ==
  IF sub_dirs = <<>> THEN result
  ELSE LET dir_name  == Basename(Head(sub_dirs))
           file_list == GlobFileList(files, root, dir_name, Extensions, rev)
           split     == SplitFileList(file_list, EmptySplit,
                                      testing_pct, validation_pct)
           entry     == [dir |-> dir_name, training |-> split.training,
                         testing |-> split.testing,
                         validation |-> split.validation]
       IN IF file_list = <<>>
          THEN WalkResult(Tail(sub_dirs), result, files, root,
                          testing_pct, validation_pct, rev)
          ELSE WalkResult(Tail(sub_dirs),
                          DictPut(result, LabelName(dir_name), entry),
                          files, root, testing_pct, validation_pct, rev)

\* The value create_image_lists returns: None, or the dictionary.
CreateImageListsResult(files, root, testing_pct, validation_pct, revd, revf) ==
  IF ~DirExists(files, root)
  THEN [kind |-> "None", dict |-> <<>>]
  ELSE [kind |-> "dict",
        dict |-> WalkResult(WalkSubDirs(files, root, revd), <<>>, files, root,
                            testing_pct, validation_pct, revf)]

\* ------------------------------------------------------------------------
\* get_image_path, get_bottleneck_path
\* ------------------------------------------------------------------------

\* FLAGS.bottleneck_dir
BottleneckDir == <<Slash, "tmp", Slash, "bottleneck">>

\* The names of the three lists of a label.
Splits == {"training", "testing", "validation"}

\* The outcome of a call: a returned value, the process ended by
\* tf.logging.fatal, or an exception.
Returned(v) == [outcome |-> "return", value |-> v]

Failed(kind) == [outcome |-> kind, value |-> <<>>]

\* tf.logging.fatal(...) followed by the statement that then fails: the
\* process ends in the log call, or the log call returns and the statement
\* raises.
FatalThen(aborts, exception) ==
  IF aborts THEN Failed("fatal") ELSE Failed(exception)

\* A variant that clamps the index to the last element.
ModIndexClamped(index, length) ==
  IF index < 0 THEN 0 ELSE IF index >= length THEN length - 1 ELSE index

\* mod_index = index % len(category_list)
ModIndex(index, length) == index % length

\* category_list[mod_index] : an element of a list is a file name, an element
\* of the string label_lists['dir'] is a one-character string.
ElementAt(category, category_list, mod_index) ==
  IF category = "dir" THEN <<category_list[mod_index + 1]>>
  ELSE category_list[mod_index + 1]

\* get_image_path(image_lists, label_name, index, image_dir, category)
GetImagePathResult(lists, label_name, index, dir, category, aborts) ==
  IF label_name \notin DOMAIN lists THEN FatalThen(aborts, "KeyError")
  ELSE LET label_lists == lists[label_name] IN
    IF category \notin DOMAIN label_lists THEN FatalThen(aborts, "KeyError")
    ELSE LET category_list == label_lists[category] IN
      IF category_list = <<>> THEN FatalThen(aborts, "ZeroDivisionError")
      ELSE LET mod_index == ModIndex(index, Len(category_list))
               base_name == ElementAt(category, category_list, mod_index)
               sub_dir   == label_lists["dir"]
           IN Returned(PathJoin(PathJoin(dir, sub_dir), base_name))

\* get_bottleneck_path(...) = get_image_path(...) + '.txt'
GetBottleneckPathResult(lists, label_name, index, dir, category, aborts) ==
  LET r == GetImagePathResult(lists, label_name, index, dir, category, aborts)
  IN IF r.outcome = "return" THEN Returned(Append(r.value, ".txt")) ELSE r

\* ------------------------------------------------------------------------
\* get_or_create_bottleneck, cache_bottlenecks, get_random_cached_bottlenecks
\* ------------------------------------------------------------------------

\* Length of the vector the bottleneck layer produces.
BottleneckLen == 2

\* run_bottleneck_on_image: the bottleneck values of an image, a fixed
\* function of the image.  A value is a float32 with seven significant
\* digits, written as the integer of those digits.
RunBottleneckOnImage(image_path) ==
  [i \in 1..BottleneckLen |->
     1000000 + 100 * Sha1Mod65536(Flat(image_path)) + 10 * i + 3]

\* str(x) of a float32: its decimal text with six significant digits.  A
\* text is a record: whether float() accepts it, and the number it denotes.
StrOfFloat(x) == [parsable |-> TRUE, number |-> ((x + 5) \div 10) * 10]

\* A text float() rejects: the empty string, or a number cut off.
BadText == [parsable |-> FALSE, number |-> 0]

\* bottleneck_string = ','.join(str(x) for x in bottleneck_values): the
\* string is written as the sequence of the texts the commas separate, and
\* so is the content of a cache file.
BottleneckString(bottleneck_values) ==
  [i \in 1..Len(bottleneck_values) |-> StrOfFloat(bottleneck_values[i])]

\* The content of a file that has been opened for writing and not written.
EmptyFile == <<>>

\* bottleneck_string.split(',') : the empty string splits into one empty
\* text.
SplitCommas(bottleneck_string) ==
  IF bottleneck_string = <<>> THEN <<BadText>> ELSE bottleneck_string

\* [float(x) for x in bottleneck_string.split(',')]
ParseBottleneckString(bottleneck_string) ==
  LET texts == SplitCommas(bottleneck_string) IN
  IF \A i \in 1..Len(texts) : texts[i].parsable
  THEN Returned([i \in 1..Len(texts) |-> texts[i].number])
  ELSE Failed("ValueError")

\* Counters of the history variables stop at this value.
MaxCount == 2

CountUp(counts, k) ==
  DictPut(counts, k,
          IF k \in DOMAIN counts
          THEN (IF counts[k] < MaxCount THEN counts[k] + 1 ELSE MaxCount)
          ELSE 1)

CountOf(counts, k) == IF k \in DOMAIN counts THEN counts[k] ELSE 0

\* The cache directory, with the history of its use:
\*   files      the cache files and their contents
\*   dirs       the directories ensure_dir_exists has made
\*   runs       per image, how often the extractor has run on it
\*   requested  the images get_or_create_bottleneck has been asked for
EmptyCache == [files |-> <<>>, dirs |-> {}, runs |-> <<>>, requested |-> {}]

\* A variant that tests for the path without the '.txt' suffix.
CacheFileExistsNoSuffix(files, bottleneck_path) ==
  SubSeq(bottleneck_path, 1, Len(bottleneck_path) - 1) \in DOMAIN files

\* os.path.exists(bottleneck_path)
CacheFileExists(files, bottleneck_path) == bottleneck_path \in DOMAIN files

\* gfile.Exists(image_path)
ImageExists(files, image_path) == \E f \in files : FullPath(f) = image_path

\* What one call of get_or_create_bottleneck did: its outcome and value,
\* the image and index it was asked for, whether the cache file existed and
\* what it held before and holds after, whether the image file was there,
\* whether the extractor ran and whether the cache file was written.
CallInfo(outcome, value, image, index, existed, before, after, found, ran, wrote) ==
  [outcome |-> outcome, value |-> value, image |-> image, index |-> index,
   existed |-> existed, before |-> before, after |-> after, found |-> found,
   ran |-> ran, wrote |-> wrote]

\* A call that failed before it resolved a path.
NoPathInfo(outcome, index) ==
  CallInfo(outcome, <<>>, <<>>, index, FALSE, <<>>, <<>>, FALSE, FALSE, FALSE)

FileContent(files, path) == IF path \in DOMAIN files THEN files[path] ELSE <<>>

\* get_or_create_bottleneck(sess, image_lists, label_name, index, image_dir,
\*                          category, bottleneck_dir)
\* on cache c; gives the cache afterwards and what the call did.
GetOrCreateBottleneckResult(c, files, lists, label_name, index, dir, category, aborts) ==
  IF label_name \notin DOMAIN lists
  THEN [cache |-> c, info |-> NoPathInfo("KeyError", index)]
  ELSE
  LET sub_dir_path == PathJoin(BottleneckDir, lists[label_name]["dir"])
      c1 == [c EXCEPT !.dirs = @ \cup {BottleneckDir, sub_dir_path}]
      bp == GetBottleneckPathResult(lists, label_name, index, BottleneckDir,
                                    category, aborts)
  IN
  IF bp.outcome # "return"
  THEN [cache |-> c1, info |-> NoPathInfo(bp.outcome, index)]
  ELSE
  LET bottleneck_path == bp.value
      image_path == GetImagePathResult(lists, label_name, index, dir,
                                       category, aborts).value
      existed == bottleneck_path \in DOMAIN c1.files
      before  == FileContent(c1.files, bottleneck_path)
      found   == ImageExists(files, image_path)
      c2 == [c1 EXCEPT !.requested = @ \cup {image_path}]
      hit == CacheFileExists(c1.files, bottleneck_path)
  IN
  IF ~hit /\ ~found
  THEN [cache |-> c2,
        info |-> CallInfo(FatalThen(aborts, "NotFoundError").outcome, <<>>,
                          image_path, index, existed, before, before, found,
                          FALSE, FALSE)]
  ELSE
  LET bottleneck_string ==
        BottleneckString(RunBottleneckOnImage(image_path))
      c3 == IF hit THEN c2
            ELSE [c2 EXCEPT
                    !.runs = CountUp(@, image_path),
                    !.files = DictPut(@, bottleneck_path, bottleneck_string)]
      r == ParseBottleneckString(c3.files[bottleneck_path])
  IN [cache |-> c3,
      info |-> CallInfo(r.outcome, r.value, image_path, index, existed,
                        before, c3.files[bottleneck_path], found, ~hit, ~hit)]

\* ------------------------------------------------------------------------
\* State
\* ------------------------------------------------------------------------

VARIABLES
  disk,                  \* the image files that exist
  rev_dirs,              \* the file system lists directories in reverse
  rev_files,             \* the file system lists files in reverse
  image_dir,             \* FLAGS.image_dir
  testing_percentage,    \* FLAGS.testing_percentage
  validation_percentage, \* FLAGS.validation_percentage
  result_kind,           \* "unset", or what create_image_lists returned
  image_lists,           \* the dictionary create_image_lists returned
  scanned,               \* history: the files that existed at that call
  regrown,               \* history: a call has rescanned a folder that had
                         \* gained exactly one file since the call before
  fatal_aborts,          \* tf.logging.fatal ends the process (it only logs
                         \* with a logging backend that maps it to critical)
  call,                  \* the last call of the path resolver and its outcome
  cache,                 \* the bottleneck directory and the history of its use
  ret,                   \* what the last call of get_or_create_bottleneck did
  faults,                \* how often something else has touched the files
  race_call,             \* the call two concurrent processes both make
  procs,                 \* where each of them is in get_or_create_bottleneck
  flags,                 \* the other FLAGS main reads
  pc,                    \* where main is
  step,                  \* i of main's training loop
  log,                   \* history: what main has done, in order
  batch,                 \* the minibatch the last call of a sampler returned
  used_indices,          \* history: the <<label, one-hot index>> of the
                         \* pairs of every minibatch of the run
  output_labels          \* the characters of the file FLAGS.output_labels

partVars == <<disk, rev_dirs, rev_files, image_dir, testing_percentage,
              validation_percentage, result_kind, image_lists, scanned,
              regrown>>

pathVars == <<fatal_aborts, call>>

cacheVars == <<cache, ret>>

raceVars == <<faults, race_call, procs>>

mainVars == <<flags, pc, step, log, batch, used_indices, output_labels>>

vars == <<partVars, pathVars, cacheVars, raceVars, mainVars>>

\* <<testing_percentage, validation_percentage>>
PctPairs == {<<20, 20>>, <<0, 0>>, <<0, 100>>, <<100, 20>>}

\* The images of a folder that a scan of  files  finds.
IsImageName(base) ==
  base[Len(base)] \in {".jpg", ".jpeg", ".JPG", ".JPEG"}

Discovered(files, root, dir_name) ==
  {b \in DirEntries(files, root, dir_name) : IsImageName(b)}

NoCall == [fn |-> "none", label_name |-> <<>>, index |-> 0, dir |-> <<>>,
           category |-> "none", outcome |-> "none", value |-> <<>>]

NoRet == [fn |-> "none",
          info |-> NoPathInfo("none", 0)]

Procs == {1, 2}

\* main is not running.
NoBatch == [sampler |-> "none", category |-> "none", how_many |-> 0,
            serial |-> 0, outcome |-> "none", pairs |-> <<>>]

NoFlags == [how_many_training_steps |-> 0, eval_step_interval |-> 0,
            flip_left_right |-> FALSE, random_crop |-> 0, random_scale |-> 0,
            random_brightness |-> 0, train_batch_size |-> 0,
            validation_batch_size |-> 0, test_batch_size |-> 0]

NoMain ==
  /\ flags = NoFlags
  /\ pc = "idle"
  /\ step = 0
  /\ log = <<>>
  /\ batch = NoBatch
  /\ used_indices = {}
  /\ output_labels = <<>>

NoRace ==
  /\ faults = 0
  /\ race_call = <<>>
  /\ procs = [p \in Procs |-> [pc |-> "idle", off |-> 0, ret |-> Failed("none")]]

\* The flags and the file system's listing order, fixed for a run.
InitFlags ==
  /\ rev_dirs \in BOOLEAN
  /\ rev_files \in BOOLEAN
  /\ image_dir \in ImageDirs
  /\ \E p \in PctPairs : /\ testing_percentage = p[1]
                         /\ validation_percentage = p[2]

InitPart ==
  /\ disk = {}
  /\ InitFlags
  /\ result_kind = "unset"
  /\ image_lists = <<>>
  /\ scanned = {}
  /\ regrown = FALSE
  /\ fatal_aborts = FALSE
  /\ call = NoCall
  /\ cache = EmptyCache
  /\ ret = NoRet
  /\ NoRace
  /\ NoMain

\* The environment puts one more file into the image tree.
AddFile ==
  \E f \in FilePool \ disk :
    /\ disk' = disk \cup {f}
    /\ UNCHANGED <<rev_dirs, rev_files, image_dir, testing_percentage,
                   validation_percentage, result_kind, image_lists, scanned,
                   regrown>>
    /\ UNCHANGED <<pathVars, cacheVars, raceVars, mainVars>>

\* One more file since the last call, in a folder that had images then.
GrownByOne(old, new, root) ==
  \E g \in new \ old :
    /\ new = old \cup {g}
    /\ g.root = root
    /\ Discovered(old, root, g.dir) # {}

\* image_lists = create_image_lists(FLAGS.image_dir, ...)
CreateImageLists ==
  LET r == CreateImageListsResult(disk, image_dir, testing_percentage,
                                  validation_percentage, rev_dirs, rev_files)
  IN /\ result_kind' = r.kind
     /\ image_lists' = r.dict
     /\ scanned' = disk
     /\ regrown' = (regrown \/ (result_kind = "dict"
                                /\ GrownByOne(scanned, disk, image_dir)))
     /\ UNCHANGED <<disk, rev_dirs, rev_files, image_dir, testing_percentage,
                    validation_percentage>>
     /\ UNCHANGED <<pathVars, cacheVars, raceVars, mainVars>>

NextPart == AddFile \/ CreateImageLists

SpecPart == InitPart /\ [][NextPart]_vars

\* ------------------------------------------------------------------------
\* Properties of the partitioner
\* ------------------------------------------------------------------------

NoDuplicates(s) == \A i, j \in 1..Len(s) : s[i] = s[j] => i = j

EntryFiles(e) == e.training \o e.testing \o e.validation

\* The list of entry e that holds base name b.
SplitOfBase(e, b) ==
  IF b \in Range(e.training) THEN "training"
  ELSE IF b \in Range(e.testing) THEN "testing"
  ELSE IF b \in Range(e.validation) THEN "validation"
  ELSE "absent"

\* The list that holds base name b of folder dir_name.
SplitIn(lists, dir_name, b) ==
  IF \E l \in DOMAIN lists : lists[l].dir = dir_name
  THEN SplitOfBase(lists[CHOOSE l \in DOMAIN lists : lists[l].dir = dir_name], b)
  ELSE "absent"

\* C1: after create_image_lists, for every label the three lists together
\* hold every image file found in the label's folder exactly once: no file
\* is in two lists or twice in one, and none is left out.
C1_Coverage ==
  result_kind = "dict" =>
    \A l \in DOMAIN image_lists :
      LET e == image_lists[l] IN
        /\ NoDuplicates(EntryFiles(e))
        /\ Range(EntryFiles(e)) = Discovered(scanned, image_dir, e.dir)

C1_Witness ==
  /\ result_kind = "dict"
  /\ \E l \in DOMAIN image_lists :
       /\ Len(EntryFiles(image_lists[l])) >= 4
       /\ image_lists[l].training # <<>>
       /\ image_lists[l].testing # <<>>
  /\ \E l \in DOMAIN image_lists : image_lists[l].validation # <<>>
  /\ \E f \in scanned : ~IsImageName(f.base)

\* C2: when create_image_lists is run again on a folder that has gained one
\* file since the previous run (same percentages), every file the folder
\* already held is in the same list as before.
C2_MonotonicStability ==
  [][(/\ result_kind = "dict"
      /\ result_kind' = "dict"
      /\ GrownByOne(scanned, scanned', image_dir))
     => \A g \in scanned' \ scanned : \A f \in scanned :
          (f.root = g.root /\ f.dir = g.dir)
          => SplitIn(image_lists', f.dir, f.base)
             = SplitIn(image_lists, f.dir, f.base)]_vars

C2_Witness ==
  /\ regrown
  /\ result_kind = "dict"
  /\ \E l \in DOMAIN image_lists :
       /\ image_lists[l].training # <<>>
       /\ image_lists[l].testing # <<>>

\* C3: the list a file is put in depends only on its base name (with the
\* grouping suffix stripped) and on the percentages: the same base name is
\* in the same list under whatever folder it is found.
C3_SplitByBaseNameOnly ==
  result_kind = "dict" =>
    \A l1, l2 \in DOMAIN image_lists :
      \A b \in Range(EntryFiles(image_lists[l1])) :
        b \in Range(EntryFiles(image_lists[l2]))
        => SplitOfBase(image_lists[l1], b) = SplitOfBase(image_lists[l2], b)

\* The part of a base name before its first grouping marker.
RECURSIVE BeforeMarker(_)
BeforeMarker(b) ==
  IF b = <<>> \/ Head(b) = NoHashMarker THEN <<>>
  ELSE <<Head(b)>> \o BeforeMarker(Tail(b))

HasMarker(b) == \E i \in 1..Len(b) : b[i] = NoHashMarker

\* C4: two files of one label folder whose names agree up to the first
\* grouping marker are in the same list.
C4_Grouping ==
  result_kind = "dict" =>
    \A l \in DOMAIN image_lists :
      \A b1, b2 \in Range(EntryFiles(image_lists[l])) :
        (HasMarker(b1) /\ HasMarker(b2) /\ BeforeMarker(b1) = BeforeMarker(b2))
        => SplitOfBase(image_lists[l], b1) = SplitOfBase(image_lists[l], b2)

\* C5: the percentile is below 100 for every digest, so with a validation
\* percentage of 100 every file is in the validation list.
C5_AllValidationAt100 ==
  (result_kind = "dict" /\ validation_percentage = 100) =>
    \A l \in DOMAIN image_lists :
      /\ image_lists[l].training = <<>>
      /\ image_lists[l].testing = <<>>

\* ------------------------------------------------------------------------
\* The path resolver on a dictionary create_image_lists has returned
\* ------------------------------------------------------------------------

\* The image trees the path resolver is tried on: the whole pool, or the
\* pool without one file.
StartDisks == {FilePool} \cup {FilePool \ {f} : f \in FilePool}

\* The state after image_lists = create_image_lists(...) has returned a
\* dictionary for one of the image trees  disks.
InitLists(disks) ==
  /\ InitFlags
  /\ disk \in disks
  /\ LET r == CreateImageListsResult(disk, image_dir, testing_percentage,
                                     validation_percentage, rev_dirs, rev_files)
     IN /\ r.kind = "dict"
        /\ result_kind = r.kind
        /\ image_lists = r.dict
  /\ scanned = disk
  /\ regrown = FALSE

InitPath ==
  /\ InitLists(StartDisks)
  /\ fatal_aborts \in BOOLEAN
  /\ call = NoCall
  /\ cache = EmptyCache
  /\ ret = NoRet
  /\ NoRace
  /\ NoMain

\* A label no folder gives.
UnknownLabel == <<"b", "i", "r", "d">>

CallLabels == DOMAIN image_lists \cup {UnknownLabel}

CallCategories == Splits \cup {"dir", "bogus"}

CallIndices == {-7, -1, 0, 1, 2, 5, 65535, 70000}

\* The resolver changes no state: one call is applied to each dictionary.
GetImagePath ==
  /\ result_kind = "dict"
  /\ call.fn = "none"
  /\ \E label_name \in CallLabels, index \in CallIndices,
        category \in CallCategories :
       LET r == GetImagePathResult(image_lists, label_name, index, image_dir,
                                   category, fatal_aborts)
       IN call' = [fn |-> "get_image_path", label_name |-> label_name,
                   index |-> index, dir |-> image_dir, category |-> category,
                   outcome |-> r.outcome, value |-> r.value]
  /\ UNCHANGED <<partVars, fatal_aborts, cacheVars, raceVars, mainVars>>

GetBottleneckPath ==
  /\ result_kind = "dict"
  /\ call.fn = "none"
  /\ \E label_name \in CallLabels, index \in CallIndices,
        category \in CallCategories :
       LET r == GetBottleneckPathResult(image_lists, label_name, index,
                                        BottleneckDir, category, fatal_aborts)
       IN call' = [fn |-> "get_bottleneck_path", label_name |-> label_name,
                   index |-> index, dir |-> BottleneckDir,
                   category |-> category,
                   outcome |-> r.outcome, value |-> r.value]
  /\ UNCHANGED <<partVars, fatal_aborts, cacheVars, raceVars, mainVars>>

NextPath == GetImagePath \/ GetBottleneckPath

SpecPath == InitPath /\ [][NextPath]_vars

\* The call named a known label and one of its three lists, not empty.
CallOnNonEmptyList ==
  /\ call.fn # "none"
  /\ call.label_name \in DOMAIN image_lists
  /\ call.category \in Splits
  /\ image_lists[call.label_name][call.category] # <<>>

\* How many multiples of the list length the wraparound is compared over.
WrapMultiples == 2

\* C6: for a known label and a non-empty list of length L, get_image_path
\* and get_bottleneck_path return the path of the list element at position
\* index mod L, for negative and very large indices too, so index and
\* index + k*L give the same path; the bottleneck path is that path under
\* the cache root with '.txt' appended.
C6_IndexWraparound ==
  CallOnNonEmptyList =>
    LET e      == image_lists[call.label_name]
        list   == e[call.category]
        L      == Len(list)
        expect == PathJoin(PathJoin(call.dir, e.dir),
                           list[(call.index % L) + 1])
    IN /\ call.outcome = "return"
       /\ call.fn = "get_image_path" => call.value = expect
       /\ call.fn = "get_bottleneck_path" =>
            /\ call.dir = BottleneckDir
            /\ call.value = expect \o <<".txt">>
       /\ \A k \in (0 - WrapMultiples)..WrapMultiples :
            LET r == IF call.fn = "get_image_path"
                     THEN GetImagePathResult(image_lists, call.label_name,
                            call.index + k * L, call.dir, call.category,
                            fatal_aborts)
                     ELSE GetBottleneckPathResult(image_lists,
                            call.label_name, call.index + k * L, call.dir,
                            call.category, fatal_aborts)
            IN r.outcome = "return" /\ r.value = call.value

C6_Witness ==
  /\ CallOnNonEmptyList
  /\ call.fn = "get_bottleneck_path"
  /\ call.outcome = "return"
  /\ call.index = 65535
  /\ Len(image_lists[call.label_name][call.category]) = 3
  /\ Basename(call.value) =
       image_lists[call.label_name][call.category][1] \o <<".txt">>

\* C7: get_image_path and get_bottleneck_path end in an error, and return
\* no path, whenever the label is unknown, the category is not the name of
\* one of the label's three lists, or the list is empty.
C7_LookupErrorsReturnNoPath ==
  (/\ call.fn # "none"
   /\ \/ call.label_name \notin DOMAIN image_lists
      \/ call.category \notin Splits
      \/ image_lists[call.label_name][call.category] = <<>>)
  => call.outcome # "return"

\* ------------------------------------------------------------------------
\* The bottleneck cache, used by one process
\* ------------------------------------------------------------------------

\* Label names in the order the dictionary iterates over them.
LabelOrder == <<LabelName(DirCat), LabelName(DirDog)>>

\* image_lists.keys()
DictKeys(lists) == Listing(LabelOrder, DOMAIN lists, FALSE)

SplitOrder == <<"training", "testing", "validation">>

\* The calls <<label_name, category, index>> of get_or_create_bottleneck
\* that the loops of cache_bottlenecks make, in order.
RECURSIVE WarmCalls(_, _, _)
WarmCalls(lists, keys, categories) ==
  IF keys = <<>> THEN <<>>
  ELSE IF categories = <<>> THEN WarmCalls(lists, Tail(keys), SplitOrder)
  ELSE LET category_list == lists[Head(keys)][Head(categories)]
       IN [i \in 1..Len(category_list) |->
             <<Head(keys), Head(categories), i - 1>>]
          \o WarmCalls(lists, keys, Tail(categories))

\* A sequence of calls of get_or_create_bottleneck; an exception in one of
\* them ends the sequence.
RECURSIVE RunCalls(_, _, _)
RunCalls(c, info, calls) ==
  IF calls = <<>> \/ info.outcome \notin {"none", "return"}
  THEN [cache |-> c, info |-> info]
  ELSE LET r == GetOrCreateBottleneckResult(c, disk, image_lists,
                  Head(calls)[1], Head(calls)[3], image_dir, Head(calls)[2],
                  fatal_aborts)
       IN RunCalls(r.cache, r.info, Tail(calls))

\* cache_bottlenecks(sess, image_lists, image_dir, bottleneck_dir)
CacheBottlenecks ==
  /\ result_kind = "dict"
  /\ LET c0 == [cache EXCEPT !.dirs = @ \cup {BottleneckDir}]
         r  == RunCalls(c0, NoRet.info,
                        WarmCalls(image_lists, DictKeys(image_lists),
                                  SplitOrder))
     IN /\ cache' = r.cache
        /\ ret' = [fn |-> "cache_bottlenecks", info |-> r.info]
  /\ UNCHANGED <<partVars, pathVars, raceVars, mainVars>>

\* How many bottlenecks one call of the sampler is asked for.
BatchSize == 2

\* Values random.randrange(65536) gives.
RandomIndices == {1, 65535}

\* get_random_cached_bottlenecks(sess, image_lists, how_many, category,
\*                               bottleneck_dir, image_dir)
GetRandomCachedBottlenecks ==
  /\ result_kind = "dict"
  /\ \E how_many \in 1..BatchSize, category \in Splits :
     \E picks \in [1..how_many ->
                     (0..(Cardinality(DOMAIN image_lists) - 1))
                     \X RandomIndices] :
       LET keys  == DictKeys(image_lists)
           calls == [i \in 1..how_many |->
                       <<keys[picks[i][1] + 1], category, picks[i][2]>>]
           r     == RunCalls(cache, NoRet.info, calls)
       IN /\ cache' = r.cache
          /\ ret' = [fn |-> "get_random_cached_bottlenecks", info |-> r.info]
  /\ UNCHANGED <<partVars, pathVars, raceVars, mainVars>>

InitCache ==
  /\ InitLists({FilePool})
  /\ fatal_aborts \in BOOLEAN
  /\ call = NoCall
  /\ cache = EmptyCache
  /\ ret = NoRet
  /\ NoRace
  /\ NoMain

NextCache == CacheBottlenecks \/ GetRandomCachedBottlenecks

SpecCache == InitCache /\ [][NextCache]_vars

\* The cache file of an image: bottleneck_dir/<folder>/<base name>.txt
BottleneckPathOf(image_path) ==
  PathJoin(PathJoin(BottleneckDir, Basename(Dirname(image_path))),
           Basename(image_path)) \o <<".txt">>

\* C8: in a sequence of calls made one after the other (warming the cache,
\* then sampling with arbitrary ordinals), from an empty cache that nothing
\* else touches, the extractor has run exactly once on every image asked for,
\* however often the image was asked for again, and on no other image; a call
\* that finds the cache file runs no extractor and writes nothing.
C8_ExactlyOnce ==
  /\ \A image \in cache.requested : CountOf(cache.runs, image) = 1
  /\ DOMAIN cache.runs \subseteq cache.requested
  /\ DOMAIN cache.files = {BottleneckPathOf(image) : image \in cache.requested}
  /\ (ret.info.image # <<>> /\ ret.info.existed) =>
       (~ret.info.ran /\ ~ret.info.wrote /\ ret.info.after = ret.info.before)

\* A sampled ordinal beyond the list length has hit the file an earlier
\* call cached.
C8_Witness ==
  /\ ret.fn = "get_random_cached_bottlenecks"
  /\ ret.info.index = 65535
  /\ ret.info.existed
  /\ ret.info.outcome = "return"
  /\ CountOf(cache.runs, ret.info.image) = 1
  /\ Cardinality(cache.requested) >= 3

\* ------------------------------------------------------------------------
\* The bottleneck cache when something else touches the files
\* ------------------------------------------------------------------------

\* How often the files are touched from outside.
MaxFaults == 1

\* One call of get_or_create_bottleneck.
GetOrCreateBottleneck ==
  /\ result_kind = "dict"
  /\ \E label_name \in DOMAIN image_lists, category \in Splits,
        index \in RandomIndices \cup {0} :
       LET r == GetOrCreateBottleneckResult(cache, disk, image_lists,
                  label_name, index, image_dir, category, fatal_aborts)
       IN /\ cache' = r.cache
          /\ ret' = [fn |-> "get_or_create_bottleneck", info |-> r.info]
  /\ UNCHANGED <<partVars, pathVars, raceVars, mainVars>>

\* The records a write that was cut short leaves: the first texts of the
\* record, the last of them possibly cut inside a number.
PartialRecords(full) ==
  {SubSeq(full, 1, k) : k \in 0..(Len(full) - 1)}
  \cup {Append(SubSeq(full, 1, k), BadText) : k \in 0..(Len(full) - 1)}

\* A process that was killed while it wrote a cache file has left a partial
\* record.
LeavePartialFile ==
  /\ faults < MaxFaults
  /\ \E f \in {g \in disk : IsImageName(g.base)} :
     \E content \in
          PartialRecords(BottleneckString(RunBottleneckOnImage(FullPath(f)))) :
       cache' = [cache EXCEPT
                   !.files = DictPut(@, BottleneckPathOf(FullPath(f)), content)]
  /\ faults' = faults + 1
  /\ UNCHANGED <<partVars, pathVars, ret, race_call, procs,
               mainVars>>

\* A cache file is deleted.
RemoveCacheFile ==
  /\ faults < MaxFaults
  /\ \E path \in DOMAIN cache.files :
       cache' = [cache EXCEPT
                   !.files = [q \in DOMAIN @ \ {path} |-> @[q]]]
  /\ faults' = faults + 1
  /\ UNCHANGED <<partVars, pathVars, ret, race_call, procs,
               mainVars>>

\* An image file is deleted after the lists were built.
RemoveImage ==
  /\ faults < MaxFaults
  /\ \E f \in {g \in disk : IsImageName(g.base)} : disk' = disk \ {f}
  /\ faults' = faults + 1
  /\ UNCHANGED <<rev_dirs, rev_files, image_dir, testing_percentage,
                 validation_percentage, result_kind, image_lists, scanned,
                 regrown, pathVars, cacheVars, race_call, procs,
                 mainVars>>

NextCorrupt ==
  \/ GetOrCreateBottleneck
  \/ LeavePartialFile
  \/ RemoveCacheFile
  \/ RemoveImage

\* A small image tree: two labels, three images.
SmallTree ==
  { File(RootR1, DirCat, BaseA), File(RootR1, DirCat, BaseLeafNl),
    File(RootR1, DirDog, BaseA) }

\* The lists are those of one scan of the small tree, 20% testing and 20%
\* validation: one image in each split.
InitCorrupt ==
  /\ InitLists({SmallTree})
  /\ ~rev_dirs
  /\ ~rev_files
  /\ <<testing_percentage, validation_percentage>> = <<20, 20>>
  /\ fatal_aborts \in BOOLEAN
  /\ call = NoCall
  /\ cache = EmptyCache
  /\ ret = NoRet
  /\ NoRace
  /\ NoMain

SpecCorrupt == InitCorrupt /\ [][NextCorrupt]_vars

\* The record and the vector of an image that a call which finds no cache
\* file writes and returns.
FreshRecord(image_path) == BottleneckString(RunBottleneckOnImage(image_path))

FreshVector(image_path) == ParseBottleneckString(FreshRecord(image_path)).value

\* C9 as stated: a call for a key whose cache file is absent, or present but
\* partial or unparsable, runs the extractor, rewrites the file and returns
\* the full vector.
C9_RecomputedIfMissingOrCorrupt ==
  (/\ ret.fn = "get_or_create_bottleneck"
   /\ ret.info.image # <<>>
   /\ ret.info.found
   /\ \/ ~ret.info.existed
      \/ ret.info.before # FreshRecord(ret.info.image))
  => /\ ret.info.ran
     /\ ret.info.wrote
     /\ ret.info.outcome = "return"
     /\ ret.info.value = FreshVector(ret.info.image)

\* C9 as amended: a call recomputes only when the cache file is absent.  If
\* it is absent and the image exists, the call runs the extractor, writes
\* the record and returns the full-length vector read back from it.  If it
\* is present, whatever it holds, the call neither runs the extractor nor
\* writes the file: it returns what the content parses to, or fails with
\* the parse error.
C9_RecomputedOnlyIfMissing ==
  (ret.fn = "get_or_create_bottleneck" /\ ret.info.image # <<>>) =>
    /\ (~ret.info.existed /\ ret.info.found) =>
         /\ ret.info.ran
         /\ ret.info.wrote
         /\ ret.info.after = FreshRecord(ret.info.image)
         /\ ret.info.outcome = "return"
         /\ ret.info.value = FreshVector(ret.info.image)
         /\ Len(ret.info.value) = BottleneckLen
    /\ ret.info.existed =>
         /\ ~ret.info.ran
         /\ ~ret.info.wrote
         /\ ret.info.after = ret.info.before
         /\ ret.info.outcome = ParseBottleneckString(ret.info.before).outcome
         /\ ret.info.value = ParseBottleneckString(ret.info.before).value

\* A call has found a partial record and returned a vector that is too
\* short without running the extractor.
C9_Witness ==
  /\ ret.fn = "get_or_create_bottleneck"
  /\ ret.info.existed
  /\ ret.info.before # FreshRecord(ret.info.image)
  /\ ret.info.outcome = "return"
  /\ Len(ret.info.value) < BottleneckLen
  /\ ~ret.info.ran

\* ------------------------------------------------------------------------
\* Two processes in get_or_create_bottleneck for the same key
\* ------------------------------------------------------------------------

\* race_call = <<label_name, category, index>>
RaceImage ==
  GetImagePathResult(image_lists, race_call[1], race_call[3], image_dir,
                     race_call[2], fatal_aborts).value

RacePath ==
  GetBottleneckPathResult(image_lists, race_call[1], race_call[3],
                          BottleneckDir, race_call[2], fatal_aborts).value

\* The calls both processes can make: a known label and a list that is not
\* empty.
RaceCalls ==
  {<<label_name, category, index>> :
     label_name \in DOMAIN image_lists, category \in Splits,
     index \in RandomIndices}

InitRace ==
  /\ InitLists({SmallTree})
  /\ ~rev_dirs
  /\ ~rev_files
  /\ <<testing_percentage, validation_percentage>> = <<20, 20>>
  /\ fatal_aborts \in BOOLEAN
  /\ call = NoCall
  /\ cache = EmptyCache
  /\ ret = NoRet
  /\ faults = 0
  /\ race_call \in {c \in RaceCalls : image_lists[c[1]][c[2]] # <<>>}
  /\ procs = [p \in Procs |->
                [pc |-> "check", off |-> 0, ret |-> Failed("none")]]
  /\ NoMain

\* A write of  data  at offset  off  of a file: the texts there are
\* replaced, and a gap between the end of the file and the offset reads as
\* zero bytes, which float() rejects.
Overwrite(content, off, data) ==
  IF data = <<>> THEN content
  ELSE LET end == off + Len(data)
           n == IF Len(content) > end THEN Len(content) ELSE end
       IN [i \in 1..n |->
             IF i > off /\ i <= end THEN data[i - off]
             ELSE IF i <= Len(content) THEN content[i]
             ELSE BadText]

\* ensure_dir_exists, get_bottleneck_path and the test
\* os.path.exists(bottleneck_path)
Check(p) ==
  /\ procs[p].pc = "check"
  /\ cache' = [cache EXCEPT
                 !.dirs = @ \cup {BottleneckDir, Dirname(RacePath)},
                 !.requested = @ \cup {RaceImage}]
  /\ procs' = [procs EXCEPT
                 ![p].pc = IF CacheFileExists(cache.files, RacePath)
                           THEN "read" ELSE "extract"]
  /\ UNCHANGED <<partVars, pathVars, ret, faults, race_call,
               mainVars>>

\* The image is read and run through the bottleneck layer; the record is
\* joined.
Extract(p) ==
  /\ procs[p].pc = "extract"
  /\ IF ImageExists(disk, RaceImage)
     THEN /\ cache' = [cache EXCEPT !.runs = CountUp(@, RaceImage)]
          /\ procs' = [procs EXCEPT ![p].pc = "open"]
     ELSE /\ cache' = cache
          /\ procs' = [procs EXCEPT
                         ![p].pc = "done",
                         ![p].ret = FatalThen(fatal_aborts, "NotFoundError")]
  /\ UNCHANGED <<partVars, pathVars, ret, faults, race_call,
               mainVars>>

\* open(bottleneck_path, 'w') creates the file or truncates it.
OpenWrite(p) ==
  /\ procs[p].pc = "open"
  /\ cache' = [cache EXCEPT !.files = DictPut(@, RacePath, EmptyFile)]
  /\ procs' = [procs EXCEPT ![p].pc = "write", ![p].off = 0]
  /\ UNCHANGED <<partVars, pathVars, ret, faults, race_call,
               mainVars>>

\* bottleneck_file.write(bottleneck_string): the part of the record that
\* does not fit the buffer reaches the file.
Write(p) ==
  /\ procs[p].pc = "write"
  /\ \E k \in 0..BottleneckLen :
       /\ cache' = [cache EXCEPT
                      !.files = DictPut(@, RacePath,
                                  Overwrite(FileContent(@, RacePath), 0,
                                    SubSeq(BottleneckString(
                                      RunBottleneckOnImage(RaceImage)), 1, k)))]
       /\ procs' = [procs EXCEPT ![p].pc = "close", ![p].off = k]
  /\ UNCHANGED <<partVars, pathVars, ret, faults, race_call,
               mainVars>>

\* The end of the with block closes the file: the rest of the record
\* reaches the file at the offset the process has written up to.
Close(p) ==
  /\ procs[p].pc = "close"
  /\ cache' = [cache EXCEPT
                 !.files = DictPut(@, RacePath,
                             Overwrite(FileContent(@, RacePath), procs[p].off,
                               SubSeq(BottleneckString(
                                        RunBottleneckOnImage(RaceImage)),
                                      procs[p].off + 1, BottleneckLen)))]
  /\ procs' = [procs EXCEPT ![p].pc = "read", ![p].off = BottleneckLen]
  /\ UNCHANGED <<partVars, pathVars, ret, faults, race_call,
               mainVars>>

\* The file is read and parsed.
Read(p) ==
  /\ procs[p].pc = "read"
  /\ procs' = [procs EXCEPT
                 ![p].pc = "done",
                 ![p].ret = ParseBottleneckString(
                              FileContent(cache.files, RacePath))]
  /\ UNCHANGED <<partVars, pathVars, cacheVars, faults, race_call,
               mainVars>>

NextRace ==
  \/ \E p \in Procs : Check(p)
  \/ \E p \in Procs : Extract(p)
  \/ \E p \in Procs : OpenWrite(p)
  \/ \E p \in Procs : Write(p)
  \/ \E p \in Procs : Close(p)
  \/ \E p \in Procs : Read(p)

SpecRace == InitRace /\ [][NextRace]_vars

\* C10 as stated: when two processes have called get_or_create_bottleneck
\* for the same key with no cache file, then however their steps
\* interleave, both return the same vector, the one the extractor's output
\* for the image is stored and read back as.
C10_ConcurrentCallersAgree ==
  (\A p \in Procs : procs[p].pc = "done") =>
    \A p \in Procs : procs[p].ret = Returned(FreshVector(RaceImage))

\* ------------------------------------------------------------------------
\* The thresholds and the folders of create_image_lists
\* ------------------------------------------------------------------------

\* The percentile of the file with base name b in folder dir_name, as the
\* numerator of a fraction over HashDivisor.
PercentileOf(root, dir_name, b) ==
  PercentageHash(StripNoHash(PathJoin(PathJoin(root, dir_name), b)))

\* C17: with p the percentile of a file, v the validation and t the testing
\* percentage, the file is in validation iff p < v, in testing iff
\* v <= p < v + t and in training iff p >= v + t; so with v = t = 0 every
\* file is in training, and with v + t > 100 none is.
C17_ThresholdRule ==
  result_kind = "dict" =>
    LET v == validation_percentage * HashDivisor
        t == testing_percentage * HashDivisor
    IN \A l \in DOMAIN image_lists :
         LET e == image_lists[l] IN
         /\ \A b \in Range(EntryFiles(e)) :
              LET p == PercentileOf(image_dir, e.dir, b) IN
              /\ b \in Range(e.validation) <=> p < v
              /\ b \in Range(e.testing) <=> (v <= p /\ p < v + t)
              /\ b \in Range(e.training) <=> p >= v + t
         /\ (validation_percentage = 0 /\ testing_percentage = 0)
              => (e.validation = <<>> /\ e.testing = <<>>)
         /\ (validation_percentage + testing_percentage > 100)
              => e.training = <<>>

\* The percentages add up to more than 100: the file whose percentile is
\* 100 is in testing, and validation has files as well.
C17_Witness ==
  /\ result_kind = "dict"
  /\ validation_percentage + testing_percentage > 100
  /\ validation_percentage > 0
  /\ \E l \in DOMAIN image_lists : BaseTop \in Range(image_lists[l].testing)
  /\ \E l \in DOMAIN image_lists : image_lists[l].validation # <<>>

\* The sub-folders of root that hold at least one image.
ImageFolders(files, root) ==
  {d \in SubDirNames(files, root) : Discovered(files, root, d) # {}}

\* C19: every sub-folder that holds an image has its own entry in the
\* dictionary create_image_lists returns, with all its images in the
\* entry's lists, also when two folder names give the same label name.
C19_EveryFolderRepresented ==
  result_kind = "dict" =>
    /\ \A d \in ImageFolders(scanned, image_dir) :
         \E l \in DOMAIN image_lists :
           /\ image_lists[l].dir = d
           /\ Range(EntryFiles(image_lists[l])) = Discovered(scanned, image_dir, d)
    /\ Cardinality(DOMAIN image_lists)
         = Cardinality(ImageFolders(scanned, image_dir))

\* ------------------------------------------------------------------------
\* The samplers
\* ------------------------------------------------------------------------

\* A variant that puts the 1.0 at the index after the label's.
GroundTruthNext(class_count, label_index) ==
  [k \in 1..class_count |->
     IF k = ((label_index + 1) % class_count) + 1 THEN 1 ELSE 0]

\* ground_truth = np.zeros(class_count); ground_truth[label_index] = 1.0
GroundTruth(class_count, label_index) ==
  [k \in 1..class_count |-> IF k = label_index + 1 THEN 1 ELSE 0]

\* The index at which a ground truth vector holds its 1.0.
IndexOfOne(ground_truth) ==
  (CHOOSE k \in 1..Len(ground_truth) : ground_truth[k] = 1) - 1

\* What the calls of random.randrange give for a batch of how_many:
\* <<label_index, image_index>> for each sample.
Picks(lists, how_many) ==
  [1..how_many -> (0..(Len(DictKeys(lists)) - 1)) \X RandomIndices]

\* What a sampler gives: the cache afterwards, the outcome, the pairs of
\* the minibatch and the <<label, one-hot index>> used so far.
Sampled(c, outcome, pairs, used) ==
  [cache |-> c, outcome |-> outcome, pairs |-> pairs, used |-> used]

\* The loop of get_random_cached_bottlenecks over the samples  picks.
RECURSIVE SampleCached(_, _, _, _, _)
SampleCached(c, pairs, used, category, picks) ==
  IF picks = <<>> THEN Sampled(c, "return", pairs, used)
  ELSE
  LET class_count  == Len(DictKeys(image_lists))
      label_index  == Head(picks)[1]
      label_name   == DictKeys(image_lists)[label_index + 1]
      r == GetOrCreateBottleneckResult(c, disk, image_lists, label_name,
             Head(picks)[2], image_dir, category, fatal_aborts)
      ground_truth == GroundTruth(class_count, label_index)
  IN IF r.info.outcome # "return"
     THEN Sampled(r.cache, r.info.outcome, <<>>, used)
     ELSE SampleCached(r.cache,
            Append(pairs, [bottleneck |-> r.info.value,
                           ground_truth |-> ground_truth]),
            used \cup {<<label_name, IndexOfOne(ground_truth)>>},
            category, Tail(picks))

\* The random distortions of one image, as the change they make to its
\* bottleneck values.
Distortions == {0, 1}

\* run_bottleneck_on_image on the distorted image.
RunBottleneckOnDistorted(image_path, d) ==
  [i \in 1..BottleneckLen |-> RunBottleneckOnImage(image_path)[i] + d]

\* The loop of get_random_distorted_bottlenecks over the samples  picks
\* with the distortions  ds.
RECURSIVE SampleDistorted(_, _, _, _, _, _)
SampleDistorted(c, pairs, used, category, picks, ds) ==
  IF picks = <<>> THEN Sampled(c, "return", pairs, used)
  ELSE
  LET class_count  == Len(DictKeys(image_lists))
      label_index  == Head(picks)[1]
      label_name   == DictKeys(image_lists)[label_index + 1]
      image_path   == GetImagePathResult(image_lists, label_name,
                        Head(picks)[2], image_dir, category, fatal_aborts)
      ground_truth == GroundTruth(class_count, label_index)
  IN IF image_path.outcome # "return"
     THEN Sampled(c, image_path.outcome, <<>>, used)
     ELSE IF ~ImageExists(disk, image_path.value)
     THEN Sampled(c, FatalThen(fatal_aborts, "NotFoundError").outcome, <<>>,
                  used)
     ELSE SampleDistorted(c,
            Append(pairs,
                   [bottleneck |-> RunBottleneckOnDistorted(image_path.value,
                                                            Head(ds)),
                    ground_truth |-> ground_truth]),
            used \cup {<<label_name, IndexOfOne(ground_truth)>>},
            category, Tail(picks), Tail(ds))

\* The minibatch a call of a sampler has returned, or the exception that
\* ended it.
Batch(sampler, category, how_many, serial, r) ==
  [sampler |-> sampler, category |-> category, how_many |-> how_many,
   serial |-> serial, outcome |-> r.outcome, pairs |-> r.pairs]

\* ------------------------------------------------------------------------
\* main
\* ------------------------------------------------------------------------

\* Largest FLAGS.how_many_training_steps and FLAGS.eval_step_interval.
MaxSteps == 3

\* Two folders with an image for every list at 45% testing and 30%
\* validation; at 20% and 20% 'cat' has no validation image and 'dog' no
\* testing image.
MainTree ==
  { File(RootR1, DirCat, BaseA), File(RootR1, DirCat, BaseLeaf0),
    File(RootR1, DirCat, BaseLeafNl), File(RootR1, DirDog, BaseA),
    File(RootR1, DirDog, BaseDogB), File(RootR1, DirDog, BaseDogD) }

\* The trees main is run on: two labels, one label, no image at all, and
\* two folders with one label name.
MainDisks ==
  { MainTree,
    {f \in MainTree : f.dir = DirCat},
    {File(RootR1, DirDog, BaseN)},
    {File(RootR1, DirCat, BaseA), File(RootR1, DirCat2, BaseB)} }

\* <<testing_percentage, validation_percentage>>
MainPcts == {<<45, 30>>, <<20, 20>>}

\* <<flip_left_right, random_crop, random_scale, random_brightness>>
DistortionFlags ==
  {<<FALSE, 0, 0, 0>>, <<TRUE, 0, 0, 0>>, <<FALSE, 10, 0, 0>>,
   <<FALSE, 0, 10, 0>>, <<FALSE, 0, 0, 10>>}

\* <<train_batch_size, validation_batch_size, test_batch_size>>
MainBatchSizes == <<2, 1, 2>>

MainFlags ==
  {[how_many_training_steps |-> n, eval_step_interval |-> e,
    flip_left_right |-> d[1], random_crop |-> d[2], random_scale |-> d[3],
    random_brightness |-> d[4], train_batch_size |-> MainBatchSizes[1],
    validation_batch_size |-> MainBatchSizes[2],
    test_batch_size |-> MainBatchSizes[3]] :
     n \in 0..MaxSteps, e \in 1..MaxSteps, d \in DistortionFlags}

InitMain ==
  /\ disk \in MainDisks
  /\ rev_dirs = FALSE
  /\ rev_files = FALSE
  /\ image_dir \in ImageDirs
  /\ \E p \in MainPcts : /\ testing_percentage = p[1]
                         /\ validation_percentage = p[2]
  /\ result_kind = "unset"
  /\ image_lists = <<>>
  /\ scanned = {}
  /\ regrown = FALSE
  /\ fatal_aborts \in BOOLEAN
  /\ call = NoCall
  /\ cache = EmptyCache
  /\ ret = NoRet
  /\ NoRace
  /\ flags \in MainFlags
  /\ pc = "start"
  /\ step = 0
  /\ log = <<>>
  /\ batch = NoBatch
  /\ used_indices = {}
  /\ output_labels = <<>>

\* A variant that always distorts.
ShouldDistortImagesAlways(flip_left_right, random_crop, random_scale, random_brightness) ==
  TRUE

\* should_distort_images
ShouldDistortImages(flip_left_right, random_crop, random_scale, random_brightness) ==
  flip_left_right \/ (random_crop # 0) \/ (random_scale # 0)
    \/ (random_brightness # 0)

\* do_distort_images
DoDistortImages ==
  ShouldDistortImages(flags.flip_left_right, flags.random_crop,
                      flags.random_scale, flags.random_brightness)

\* A variant that only refuses an empty dictionary.
ClassCountZero(class_count) == class_count = 0

\* class_count == 0, class_count == 1: main returns -1.
ClassCountTooSmall(class_count) == class_count = 0 \/ class_count = 1

\* A variant that stops the loop one step early.
LoopDoneEarly(i, how_many_training_steps) == i + 1 >= how_many_training_steps

\* for i in range(FLAGS.how_many_training_steps) is exhausted.
LoopDone(i, how_many_training_steps) == i >= how_many_training_steps

\* A variant that evaluates on the interval only.
ShouldEvaluateOnInterval(i, eval_step_interval, how_many_training_steps) ==
  (i % eval_step_interval) = 0

\* (i % FLAGS.eval_step_interval) == 0 or is_last_step
ShouldEvaluate(i, eval_step_interval, how_many_training_steps) ==
  (i % eval_step_interval) = 0 \/ (i + 1 = how_many_training_steps)

\* An entry of the history of main: what was done, and in which step.
Event(ev, i) == [ev |-> ev, i |-> i]

\* A variant that writes the labels in the reverse order.
ExportedKeysReversed(lists) == Reverse(DictKeys(lists))

\* image_lists.keys() at the export.
ExportedKeys(lists) == DictKeys(lists)

\* '\n'.join(keys)
RECURSIVE JoinLines(_)
JoinLines(keys) ==
  IF keys = <<>> THEN <<>>
  ELSE IF Len(keys) = 1 THEN Head(keys)
  ELSE Head(keys) \o <<NewlineChar>> \o JoinLines(Tail(keys))

\* '\n'.join(image_lists.keys()) + '\n'
LabelFile(keys) == JoinLines(keys) \o <<NewlineChar>>

\* create_image_lists and the tests of class_count.  On None,
\* image_lists.keys() raises AttributeError.
MainCreateImageLists ==
  /\ pc = "start"
  /\ LET r == CreateImageListsResult(disk, image_dir, testing_percentage,
                                     validation_percentage, rev_dirs, rev_files)
     IN /\ result_kind' = r.kind
        /\ image_lists' = r.dict
        /\ scanned' = disk
        /\ pc' = IF r.kind = "None" THEN "failed"
                 ELSE IF ClassCountTooSmall(Len(DictKeys(r.dict)))
                      THEN "returned"
                      ELSE "prepare"
  /\ UNCHANGED <<disk, rev_dirs, rev_files, image_dir, testing_percentage,
                 validation_percentage, regrown, pathVars, cacheVars,
                 raceVars, flags, step, log, batch, used_indices,
                 output_labels>>

\* The distortion operations are added to the graph, or the cache is
\* warmed; then the training and evaluation operations are added.
MainPrepare ==
  /\ pc = "prepare"
  /\ IF DoDistortImages
     THEN /\ cache' = cache
          /\ log' = Append(log, Event("add_input_distortions", 0))
          /\ pc' = "loop"
     ELSE LET c0 == [cache EXCEPT !.dirs = @ \cup {BottleneckDir}]
              r  == RunCalls(c0, NoRet.info,
                             WarmCalls(image_lists, DictKeys(image_lists),
                                       SplitOrder))
          IN /\ cache' = r.cache
             /\ IF r.info.outcome \in {"none", "return"}
                THEN /\ log' = Append(log, Event("cache_bottlenecks", 0))
                     /\ pc' = "loop"
                ELSE /\ log' = log
                     /\ pc' = "failed"
  /\ step' = 0
  /\ UNCHANGED <<partVars, pathVars, ret, raceVars, flags, batch,
                 used_indices, output_labels>>

\* One pass of the loop up to the training step: the training batch is
\* drawn and fed to train_step.
MainTrainStep ==
  /\ pc = "loop"
  /\ ~LoopDone(step, flags.how_many_training_steps)
  /\ \E picks \in Picks(image_lists, flags.train_batch_size) :
     \E ds \in [1..flags.train_batch_size ->
                  IF DoDistortImages THEN Distortions ELSE {0}] :
       LET r == IF DoDistortImages
                THEN SampleDistorted(cache, <<>>, used_indices, "training",
                                     picks, ds)
                ELSE SampleCached(cache, <<>>, used_indices, "training",
                                  picks)
           evaluate == ShouldEvaluate(step, flags.eval_step_interval,
                                      flags.how_many_training_steps)
       IN /\ batch' = Batch(IF DoDistortImages THEN "distorted" ELSE "cached",
                            "training", flags.train_batch_size,
                            batch.serial + 1, r)
          /\ cache' = r.cache
          /\ used_indices' = r.used
          /\ IF r.outcome = "return"
             THEN /\ log' = Append(log, Event("train", step))
                  /\ pc' = IF evaluate THEN "eval" ELSE "loop"
                  /\ step' = IF evaluate THEN step ELSE step + 1
             ELSE /\ log' = log
                  /\ pc' = "failed"
                  /\ step' = step
  /\ UNCHANGED <<partVars, pathVars, ret, raceVars, flags, output_labels>>

\* The rest of the pass when the step is evaluated: accuracy and cross
\* entropy on the training batch, then a validation batch and its accuracy.
MainEvaluate ==
  /\ pc = "eval"
  /\ \E picks \in Picks(image_lists, flags.validation_batch_size) :
       LET r == SampleCached(cache, <<>>, used_indices, "validation", picks)
       IN /\ batch' = Batch("cached", "validation",
                            flags.validation_batch_size, batch.serial + 1, r)
          /\ cache' = r.cache
          /\ used_indices' = r.used
          /\ IF r.outcome = "return"
             THEN /\ log' = log \o <<Event("evaluate", step),
                                     Event("validate", step)>>
                  /\ pc' = "loop"
                  /\ step' = step + 1
             ELSE /\ log' = Append(log, Event("evaluate", step))
                  /\ pc' = "failed"
                  /\ step' = step
  /\ UNCHANGED <<partVars, pathVars, ret, raceVars, flags, output_labels>>

\* After the loop: the test batch and the final test accuracy.
MainFinalTest ==
  /\ pc = "loop"
  /\ LoopDone(step, flags.how_many_training_steps)
  /\ \E picks \in Picks(image_lists, flags.test_batch_size) :
       LET r == SampleCached(cache, <<>>, used_indices, "testing", picks)
       IN /\ batch' = Batch("cached", "testing", flags.test_batch_size,
                            batch.serial + 1, r)
          /\ cache' = r.cache
          /\ used_indices' = r.used
          /\ IF r.outcome = "return"
             THEN /\ log' = Append(log, Event("test", step))
                  /\ pc' = "export"
             ELSE /\ log' = log
                  /\ pc' = "failed"
  /\ UNCHANGED <<partVars, pathVars, ret, raceVars, flags, step,
                 output_labels>>

\* The graph and the labels are written.
MainExport ==
  /\ pc = "export"
  /\ output_labels' = LabelFile(ExportedKeys(image_lists))
  /\ log' = Append(log, Event("export", step))
  /\ pc' = "done"
  /\ UNCHANGED <<partVars, pathVars, cacheVars, raceVars, flags, step, batch,
                 used_indices>>

NextMain ==
  \/ MainCreateImageLists
  \/ MainPrepare
  \/ MainTrainStep
  \/ MainEvaluate
  \/ MainFinalTest
  \/ MainExport

SpecMain == InitMain /\ [][NextMain]_vars

\* ------------------------------------------------------------------------
\* Properties of main
\* ------------------------------------------------------------------------

\* main has started.
MainRan == pc \notin {"idle", "start"}

\* At least one distortion flag is active.
AnyDistortionFlag ==
  \/ flags.flip_left_right
  \/ flags.random_crop # 0
  \/ flags.random_scale # 0
  \/ flags.random_brightness # 0

\* How many entries of the history up to position j - 1 are of kind ev.
CountBefore(ev, j) ==
  Cardinality({k \in 1..(j - 1) : log[k].ev = ev})

\* C11: when the image root does not exist, or create_image_lists gives no
\* label or exactly one, main ends without a training step, an evaluation,
\* a call of the extractor or a cache write for warming, or an export.
C11_ConfigErrorsAbort ==
  (/\ MainRan
   /\ \/ result_kind = "None"
      \/ result_kind = "dict" /\ Cardinality(DOMAIN image_lists) <= 1)
  => /\ pc \in {"returned", "failed"}
     /\ log = <<>>
     /\ batch = NoBatch
     /\ cache = EmptyCache
     /\ output_labels = <<>>

\* main has returned on a tree whose two folders give one label.
C11_Witness ==
  /\ pc = "returned"
  /\ Cardinality(DOMAIN image_lists) = 1
  /\ Cardinality(ImageFolders(disk, image_dir)) = 2

\* C12: the phases of main occur only in the order: cache warming (once,
\* and only if no distortion flag is active), the training steps 0..N-1 in
\* increasing order, one final test, the export.  No training step comes
\* before the end of the warming, the final test does not come before step
\* N-1 has finished, and nothing is exported before the final test.
C12_PhaseOrder ==
  MainRan =>
    LET n == flags.how_many_training_steps IN
    \A j \in 1..Len(log) :
      /\ log[j].ev = "cache_bottlenecks" => (j = 1 /\ ~AnyDistortionFlag)
      /\ log[j].ev = "add_input_distortions" => (j = 1 /\ AnyDistortionFlag)
      /\ log[j].ev = "train" =>
           /\ ~AnyDistortionFlag => log[1].ev = "cache_bottlenecks"
           /\ log[j].i = CountBefore("train", j)
           /\ log[j].i < n
      /\ log[j].ev = "test" =>
           /\ ~AnyDistortionFlag => log[1].ev = "cache_bottlenecks"
           /\ CountBefore("train", j) = n
           /\ CountBefore("test", j) = 0
           /\ n > 0 => (log[j - 1].i = n - 1
                        /\ log[j - 1].ev \in {"train", "validate"})
      /\ log[j].ev = "export" =>
           /\ j = Len(log)
           /\ j > 1
           /\ log[j - 1].ev = "test"
           /\ pc = "done"

\* A run without distortions has warmed the cache, made all its steps,
\* tested and exported.
C12_Witness ==
  /\ pc = "done"
  /\ ~AnyDistortionFlag
  /\ flags.how_many_training_steps >= 2
  /\ log[1].ev = "cache_bottlenecks"
  /\ log[Len(log)].ev = "export"

\* Step i of a loop of n steps is one that is evaluated.
EvaluatedStep(i, n) ==
  (i % flags.eval_step_interval) = 0 \/ i = n - 1

\* C13: step i of the N steps is evaluated (accuracy and loss on the
\* step's own training batch, then a fresh validation batch) if and only
\* if i is a multiple of the interval or i = N-1, and after that step's
\* training step; the last step is always evaluated and a complete loop has
\* made as many evaluations as there are such i in 0..N-1.
C13_EvaluationSchedule ==
  MainRan =>
    LET n == flags.how_many_training_steps IN
    /\ \A j \in 1..Len(log) :
         /\ log[j].ev = "evaluate" =>
              /\ j > 1
              /\ log[j - 1] = Event("train", log[j].i)
              /\ EvaluatedStep(log[j].i, n)
         /\ log[j].ev = "validate" =>
              (j > 1 /\ log[j - 1] = Event("evaluate", log[j].i))
         /\ (log[j].ev = "train" /\ j < Len(log)) =>
              (log[j + 1].ev = "evaluate" <=> EvaluatedStep(log[j].i, n))
         /\ (log[j].ev = "train" /\ j = Len(log)) =>
              (pc = "eval" <=> EvaluatedStep(log[j].i, n))
         /\ (log[j].ev = "evaluate" /\ j < Len(log)) =>
              log[j + 1] = Event("validate", log[j].i)
    /\ pc = "eval" =>
         (batch.category = "training" /\ log[Len(log)] = Event("train", step))
    /\ pc \in {"export", "done"} =>
         /\ CountBefore("validate", Len(log) + 1)
              = Cardinality({i \in 0..(n - 1) : EvaluatedStep(i, n)})
         /\ n > 0 => \E j \in 1..Len(log) : log[j] = Event("validate", n - 1)

\* A complete loop of three steps with an interval of three: step 0 was
\* evaluated, step 1 was not, and step 2 was as the last one.
C13_Witness ==
  /\ pc = "done"
  /\ flags.eval_step_interval > 2
  /\ \E j \in 1..Len(log) :
       log[j].ev = "validate" /\ (log[j].i % flags.eval_step_interval) # 0
  /\ \E j \in 1..(Len(log) - 1) :
       log[j].ev = "train" /\ log[j + 1].ev = "train"

\* C14: the distorted sampler is used only for training batches and only
\* when a distortion flag is active; validation batches and the final test
\* batch are drawn by the cached sampler in both modes; and a call of the
\* distorted sampler leaves the cache directory as it is (no file read, no
\* file written).
C14_SamplerSelection ==
  [][(batch'.serial # batch.serial) =>
       /\ batch'.sampler = "distorted" =>
            /\ batch'.category = "training"
            /\ AnyDistortionFlag
            /\ cache' = cache
       /\ batch'.category \in {"validation", "testing"} =>
            batch'.sampler = "cached"]_vars

\* In a run with a distortion flag, a step has trained on a distorted
\* batch and validated on a cached one.
C14_Witness ==
  /\ AnyDistortionFlag
  /\ ~flags.flip_left_right
  /\ pc = "loop"
  /\ step >= 1
  /\ batch.sampler = "cached"
  /\ batch.category = "validation"
  /\ batch.outcome = "return"
  /\ cache.files # <<>>

\* The lines of a text file: the texts its newlines end, and what follows
\* the last newline if it is not empty.
RECURSIVE SplitLines(_, _)
SplitLines(content, line) ==
  IF content = <<>> THEN (IF line = <<>> THEN <<>> ELSE <<line>>)
  ELSE IF Head(content) = NewlineChar
       THEN <<line>> \o SplitLines(Tail(content), <<>>)
       ELSE SplitLines(Tail(content), Append(line, Head(content)))

\* C15: line k of the exported label file is the label whose one-hot index
\* was k in every minibatch of the run (training, validation and test),
\* and the file has one line per label of the dictionary.
C15_LabelOrder ==
  pc = "done" =>
    LET lines == SplitLines(output_labels, <<>>) IN
    /\ Len(lines) = Cardinality(DOMAIN image_lists)
    /\ Range(lines) = DOMAIN image_lists
    /\ \A u \in used_indices :
         u[2] + 1 \in 1..Len(lines) /\ lines[u[2] + 1] = u[1]

\* A run has exported after minibatches that used both labels.
C15_Witness ==
  /\ pc = "done"
  /\ Cardinality({u[1] : u \in used_indices}) >= 2
  /\ flags.how_many_training_steps >= 1

\* The run has passed the tests of class_count, and every image of the
\* lists is on disk.
PassedInit ==
  /\ pc \notin {"idle", "start", "returned"}
  /\ result_kind = "dict"
  /\ Cardinality(DOMAIN image_lists) >= 2
  /\ \A l \in DOMAIN image_lists : \A b \in Range(EntryFiles(image_lists[l])) :
       ImageExists(disk, PathJoin(PathJoin(image_dir, image_lists[l].dir), b))

\* main has ended: it has returned -1, an exception or tf.logging.fatal
\* has ended it, or it has reached its end.
MainEnded == pc \in {"returned", "failed", "done"}

\* C16 as stated: a run that has passed the tests of class_count, with
\* every listed image on disk, stops only when it has made all its steps,
\* the final test and the export, whatever lists create_image_lists gave,
\* also when a label's validation or testing list is empty.
C16_RunCompletes ==
  (PassedInit /\ MainEnded) => pc = "done"

\* The vector get_or_create_bottleneck returns for the image with base
\* name b of the folder of entry e.
FeaturesOf(e, b) ==
  FreshVector(PathJoin(PathJoin(image_dir, e.dir), b))

\* The position of label l in the keys of the dictionary, from 0.
KeyIndex(lists, l) ==
  (CHOOSE k \in 1..Len(DictKeys(lists)) : DictKeys(lists)[k] = l) - 1

\* C18: a minibatch that get_random_cached_bottlenecks(n, split) returns
\* has exactly n pairs; each pair is the feature vector of a file of the
\* requested list of some label L with a one-hot vector as long as the
\* number of labels whose single 1.0 is at the index of L; the features
\* are those of no file of another list or another label.
C18_MinibatchPairs ==
  (batch.sampler = "cached" /\ batch.outcome = "return") =>
    /\ Len(batch.pairs) = batch.how_many
    /\ \A i \in 1..Len(batch.pairs) :
         LET pair == batch.pairs[i] IN
         /\ Len(pair.ground_truth) = Cardinality(DOMAIN image_lists)
         /\ Cardinality({k \in 1..Len(pair.ground_truth) :
                           pair.ground_truth[k] = 1}) = 1
         /\ \A k \in 1..Len(pair.ground_truth) : pair.ground_truth[k] \in {0, 1}
         /\ \E l \in DOMAIN image_lists :
              /\ pair.ground_truth[KeyIndex(image_lists, l) + 1] = 1
              /\ \E b \in Range(image_lists[l][batch.category]) :
                   pair.bottleneck = FeaturesOf(image_lists[l], b)
         /\ \A l \in DOMAIN image_lists : \A c \in Splits :
              \A b \in Range(image_lists[l][c]) :
                pair.bottleneck = FeaturesOf(image_lists[l], b) =>
                  /\ c = batch.category
                  /\ pair.ground_truth[KeyIndex(image_lists, l) + 1] = 1

\* A training batch from the cache holds the features of files of both
\* labels.
C18_Witness ==
  /\ batch.sampler = "cached"
  /\ batch.category = "training"
  /\ batch.outcome = "return"
  /\ Len(batch.pairs) >= 2
  /\ \E i, j \in 1..Len(batch.pairs) :
       batch.pairs[i].ground_truth # batch.pairs[j].ground_truth

====
